---- MODULE Spec2Model ----
(***************************************************************************)
(* Read-aloud playback of one chat message (components/ChatMessage:        *)
(* handlePlay, stopAudio, source.onended) together with the speech client  *)
(* it calls (services/geminiService: generateSpeech, decodeAudioData).     *)
(*                                                                         *)
(* Every await of handlePlay is a suspension point, so one click starts a  *)
(* "session": a closure holding its own segments, its own nextStartTime    *)
(* and its own loop position, while isPlaying, audioContextRef,            *)
(* activeSourcesRef and abortControllerRef belong to the component and are *)
(* shared by all sessions of the message.                                  *)
(***************************************************************************)
EXTENDS Integers, Sequences, FiniteSets, TLC

VARIABLES
    answer,        \* the answer text handed to the segmenter (a sequence of characters)
    isPlaying,     \* useState(false)
    ctxCount,      \* number of AudioContext objects created through audioContextRef
    abortRef,      \* abortControllerRef.current: 0 is null, n the controller made by the n-th play
    aborted,       \* the controllers on which abort() was called
    active,        \* activeSourcesRef.current, a set of sources
    pending,       \* sources that were started and whose ended event has not been delivered
    halted,        \* sources on which stop() was called
    sessions,      \* one record per started handlePlay invocation, in start order
    now,           \* ctx.currentTime
    stopCalls,     \* number of calls of stopAudio made outside the play toggle
    turn,          \* one generation turn of the chat: handleSend and the stream it consumes
    chat,          \* the conversation of App: view, messages, isLoading, the turns started
    messageContent,\* message.content, the prop from which ChatMessage derives the answer
    players        \* the hooks of every mounted ChatMessage: one record per message of the list

vars == <<answer, isPlaying, ctxCount, abortRef, aborted, active, pending, halted, sessions, now,
          stopCalls, turn, chat, messageContent, players>>

----------------------------------------------------------------------------
(* Bounds of the model *)

\* handlePlay invocations that start a session
MaxSessions == 2
\* synthesis requests issued over all sessions of a run
MaxRequests == 2
\* synthesis requests issued in a run with a single session
MaxSoloRequests == 3
\* the audio clock runs from 0 to MaxTime in steps of TickStep
MaxTime == 10
TickStep == 5
\* calls of stopAudio made outside the play toggle
MaxStopCalls == 2
\* ChatMessage components mounted in the list
MaxMessages == 2
\* handlePlay invocations that start a session, over all the messages of the list
MaxPlays == 2

\* durations of the decoded buffers the synthesis service can return
Durations == {5, 10, 20}

----------------------------------------------------------------------------
(* Text: a string is a sequence of one-character strings *)

Delimiters == {".", "!", "?", "\n", "U+06D4", "U+061F", "U+0621"}

WhiteSpace == {" ", "\n"}

\* answers of zero, one, two equal and two different segments
SampleAnswers ==
    { <<>>,
      <<"a", "b", ".">>,
      <<"a", "b", ".", "a", "b", ".">>,
      <<"a", "b", ".", " ", "c", "d", "?", "e">> }

\* an answer of three sentences
LongAnswers ==
    { <<"a", "b", ".", "c", "d", "?", "e", "f", "U+06D4">> }

RECURSIVE SplitFrom(_, _, _, _)
\* text.split(/([.!?\n]|[۔؟ء])/g): pieces and captured delimiters alternate
SplitFrom(text, i, cur, out) ==
    IF i > Len(text) THEN Append(out, cur)
    ELSE IF text[i] \in Delimiters
         THEN SplitFrom(text, i + 1, <<>>, out \o <<cur, <<text[i]>>>>)
         ELSE SplitFrom(text, i + 1, Append(cur, text[i]), out)

JsSplit(text) == SplitFrom(text, 1, <<>>, <<>>)

\* .reduce: an even index pushes the piece, an odd index appends the delimiter to the last piece
ReduceJoin(parts) ==
    [k \in 1..((Len(parts) + 1) \div 2) |->
        IF 2 * k <= Len(parts) THEN parts[2 * k - 1] \o parts[2 * k] ELSE parts[2 * k - 1]]

RECURSIVE TrimStart(_)
TrimStart(s) ==
    IF s # <<>> /\ Head(s) \in WhiteSpace THEN TrimStart(Tail(s)) ELSE s

RECURSIVE TrimEnd(_)
TrimEnd(s) ==
    IF s # <<>> /\ s[Len(s)] \in WhiteSpace THEN TrimEnd(SubSeq(s, 1, Len(s) - 1)) ELSE s

Trim(s) == TrimEnd(TrimStart(s))

\* the marker of the verbatim block as it stands in a message while it is
\* streaming in: its first 13 characters have arrived, the other 11 follow
markerHead == "OFFICIAL VERB"
markerTail == "ATIM RECORD"

\* .filter(s => s.trim().length > 2); a part of the marker is longer than that
KeepSegment(s) ==
    \/ Len(Trim(s)) > 2
    \/ \E k \in 1..Len(Trim(s)) : Trim(s)[k] \in {markerHead, markerTail}

\* the segments of handlePlay
\* a segmenter that returns the newest segment first
SegmentsNewestFirst(text) ==
    LET kept == SelectSeq(ReduceJoin(JsSplit(text)), KeepSegment)
    IN  [k \in 1..Len(kept) |-> kept[Len(kept) + 1 - k]]

Segments(text) == SelectSeq(ReduceJoin(JsSplit(text)), KeepSegment)

\* Array.prototype.indexOf: the first position holding an equal value (1-based here)
IndexOf(seq, v) ==
    IF \E k \in 1..Len(seq) : seq[k] = v
    THEN CHOOSE k \in 1..Len(seq) : seq[k] = v /\ \A j \in 1..(k - 1) : seq[j] # v
    ELSE 0

----------------------------------------------------------------------------
(* The speech client *)

\* what the remote text-to-speech call can do
Responses ==
    [kind : {"audio"}, dur : Durations]
        \cup {[kind |-> "malformed", dur |-> 0],
              [kind |-> "nodata", dur |-> 0],
              [kind |-> "error", dur |-> 0]}

Empty == [kind |-> "empty", dur |-> 0]

\* generateSpeech: the payload, or "" when the call throws or carries no inline data
generateSpeech(resp) ==
    IF resp.kind \in {"error", "nodata"} THEN Empty ELSE resp

\* decodeAudioData(decode(base64)) throws on a payload that is no 16-bit PCM
DecodeThrows(base64) == base64.kind = "malformed"

Max(a, b) == IF a >= b THEN a ELSE b

\* a start at the arrival time, whatever is queued before
StartTimeOnArrival(nextStartTime, currentTime) == currentTime

\* const startTime = Math.max(nextStartTime, ctx.currentTime)
StartTime(nextStartTime, currentTime) == Max(nextStartTime, currentTime)

\* nextStartTime = startTime + audioBuffer.duration
NextStartTime(startTime, duration) == startTime + duration

----------------------------------------------------------------------------
(* The playback loop *)

Aborted(ref, abortedSet) == ref # 0 /\ ref \in abortedSet

\* top of the for loop: leave when the segments are used up or the signal of the
\* controller currently in abortControllerRef is aborted, else wait 100 ms
LoopTop(segments, i, ref, abortedSet) ==
    IF i > Len(segments) \/ Aborted(ref, abortedSet) THEN "done" ELSE "delay"

\* an empty result that ends the loop
AfterEmptyBreak(segments, i, ref, abortedSet) == "done"

\* if (!base64) continue
AfterEmpty(segments, i, ref, abortedSet) == LoopTop(segments, i + 1, ref, abortedSet)

\* after activeSourcesRef.current.add(source) the for loop takes the next segment
AfterSchedule(segments, i, ref, abortedSet) == LoopTop(segments, i + 1, ref, abortedSet)

\* a request that is not awaited: the loop goes on to the next delay
AfterRequestNotAwaited == "delay"

\* await generateSpeech(...): the loop is suspended until the request resolves
AfterRequest == "synth"

\* an iteration from the last segment to the first
VisitBackwards(segments, i) == Len(segments) + 1 - i

\* for (const segment of segments): the i-th iteration takes the i-th segment
Visit(segments, i) == i

Source(s, i) == [sess |-> s, seg |-> i]

EndOf(src) ==
    LET sched == sessions[src.sess].sched
        e == CHOOSE e \in {sched[k] : k \in 1..Len(sched)} : e.seg = src.seg
    IN  e.start + e.dur

RECURSIVE SumRequested(_, _)
SumRequested(ss, n) == IF n = 0 THEN 0 ELSE Len(ss[n].requested) + SumRequested(ss, n - 1)

\* the synthesis requests issued so far, over all sessions
TotalRequests == SumRequested(sessions, Len(sessions))

\* no message has been sent
NoTurn == [pc |-> "idle"]

\* the App as mounted: home view, no message, not loading
NoChat == [view |-> "home", messages |-> <<>>, isLoading |-> FALSE, clock |-> 1, turns |-> <<>>]

\* the messages of the list, each rendered by a ChatMessage of its own
Messages == 1..MaxMessages

\* useState(false), useRef(null), useRef(new Set()) of one ChatMessage, with the
\* invocations of its handlePlay (sessions) and the sources whose ended event
\* is still to come (pending)
Mounted(text) ==
    [answer |-> text, isPlaying |-> FALSE, abortRef |-> 0, aborted |-> {}, active |-> {},
     pending |-> {}, sessions |-> <<>>]

\* the list as mounted
NoPlayers == [m \in Messages |-> Mounted(<<>>)]

InitWith(answers) ==
    /\ answer \in answers
    /\ isPlaying = FALSE
    /\ ctxCount = 0
    /\ abortRef = 0
    /\ aborted = {}
    /\ active = {}
    /\ pending = {}
    /\ halted = {}
    /\ sessions = <<>>
    /\ now = 0
    /\ stopCalls = 0
    /\ turn = NoTurn
    /\ chat = NoChat
    /\ messageContent = answer
    /\ players = NoPlayers

Init == InitWith(SampleAnswers)

\* stopAudio
\* stopAudio without the null check of abortControllerRef.current: calling
\* abort() on null throws, so the call does not complete while the ref is null
stopAudioUnguarded ==
    /\ abortRef # 0
    /\ aborted' = aborted \cup {abortRef}
    /\ halted' = halted \cup active
    /\ active' = {}
    /\ isPlaying' = FALSE
    /\ sessions' = [s \in 1..Len(sessions) |->
                       [sessions[s] EXCEPT !.stopInFlight = (sessions[s].pc = "synth")]]
    /\ UNCHANGED <<answer, ctxCount, abortRef, pending, now>>

stopAudio ==
    /\ aborted' = IF abortRef # 0 THEN aborted \cup {abortRef} ELSE aborted
    /\ halted' = halted \cup active
    /\ active' = {}
    /\ isPlaying' = FALSE
    /\ sessions' = [s \in 1..Len(sessions) |->
                       [sessions[s] EXCEPT !.stopInFlight = (sessions[s].pc = "synth")]]
    /\ UNCHANGED <<answer, ctxCount, abortRef, pending, now>>

\* a toggle that aborts and resets isPlaying but leaves the buffers playing
PlayWhilePlayingKeepsBuffers ==
    /\ isPlaying
    /\ aborted' = IF abortRef # 0 THEN aborted \cup {abortRef} ELSE aborted
    /\ isPlaying' = FALSE
    /\ UNCHANGED <<answer, ctxCount, abortRef, active, pending, halted, sessions, now>>

\* handlePlay while isPlaying: the toggle stops
PlayWhilePlaying ==
    /\ isPlaying
    /\ stopAudio

\* handlePlay while not playing: a new session up to its first await
\* a play that makes a new AudioContext every time
AudioContextAlwaysNew(count) == count + 1

\* if (!audioContextRef.current) audioContextRef.current = new AudioContext(...):
\* the number of contexts made so far, which also names the one in the ref
AudioContext(count) == IF count = 0 THEN 1 ELSE count

PlayWhileIdle(maxSessions) ==
    /\ ~isPlaying
    /\ Len(sessions) < maxSessions
    /\ LET id == Len(sessions) + 1
           segments == Segments(answer)
           pc == LoopTop(segments, 1, id, aborted)
       IN  /\ isPlaying' = TRUE
           /\ abortRef' = id
           /\ ctxCount' = AudioContext(ctxCount)
           /\ sessions' = Append(sessions,
                  [segments |-> segments,
                   content |-> messageContent,
                   ctx |-> AudioContext(ctxCount),
                   i |-> 1,
                   pc |-> pc,
                   nextStartTime |-> now,
                   delays |-> IF pc = "delay" THEN 1 ELSE 0,
                   requested |-> <<>>,
                   results |-> <<>>,
                   sched |-> <<>>,
                   stopInFlight |-> FALSE])
    /\ UNCHANGED <<answer, aborted, active, pending, halted, now>>

handlePlay(maxSessions) == PlayWhilePlaying \/ PlayWhileIdle(maxSessions)

\* the 100 ms timer fires and generateSpeech(segment, voiceName) is called
DelayElapsed(s, budget) ==
    /\ sessions[s].pc = "delay"
    /\ TotalRequests < budget
    /\ sessions' = [sessions EXCEPT ![s].pc = AfterRequest,
                                    ![s].requested = Append(@, Visit(sessions[s].segments, sessions[s].i))]
    /\ UNCHANGED <<answer, isPlaying, ctxCount, abortRef, aborted, active, pending, halted, now>>

\* the synthesis call of session s resolves; the loop runs on to its next await
SynthResolve(s, resp) ==
    LET sess == sessions[s]
        base64 == generateSpeech(resp)
        startTime == StartTime(sess.nextStartTime, now)
        seg == Visit(sess.segments, sess.i)
        entry == [seg |-> seg, start |-> startTime, dur |-> base64.dur]
        resumed(pc, kind) ==
            [sess EXCEPT !.pc = pc,
                         !.results = Append(@, kind),
                         !.delays = IF pc = "delay" THEN @ + 1 ELSE @,
                         !.stopInFlight = FALSE]
    IN  /\ sess.pc = "synth"
        /\ IF base64 = Empty
           THEN /\ sessions' = [sessions EXCEPT ![s] =
                       [resumed(AfterEmpty(sess.segments, sess.i, abortRef, aborted), "empty")
                           EXCEPT !.i = sess.i + 1]]
                /\ UNCHANGED <<isPlaying, active, pending>>
           ELSE IF DecodeThrows(base64)
           THEN /\ sessions' = [sessions EXCEPT ![s] = resumed("done", "throw")]
                /\ isPlaying' = FALSE
                /\ UNCHANGED <<active, pending>>
           ELSE /\ sessions' = [sessions EXCEPT ![s] =
                       [resumed(AfterSchedule(sess.segments, sess.i, abortRef, aborted), "audio")
                           EXCEPT !.i = sess.i + 1,
                                  !.nextStartTime = NextStartTime(startTime, base64.dur),
                                  !.sched = Append(@, entry)]]
                /\ active' = active \cup {Source(s, seg)}
                /\ pending' = pending \cup {Source(s, seg)}
                /\ UNCHANGED isPlaying
        /\ UNCHANGED <<answer, ctxCount, abortRef, aborted, halted, now>>

\* segments.indexOf(segment) === segments.length - 1
IsLastSegment(segments, i) == IndexOf(segments, segments[i]) = Len(segments)

\* source.onended: the ended event of a source that played to its end or was stopped
OnEnded(src) ==
    /\ src \in pending
    /\ src \in halted \/ now >= EndOf(src)
    /\ pending' = pending \ {src}
    /\ active' = active \ {src}
    /\ isPlaying' = IF active' = {} /\ IsLastSegment(sessions[src.sess].segments, src.seg)
                    THEN FALSE ELSE isPlaying
    /\ UNCHANGED <<answer, ctxCount, abortRef, aborted, halted, sessions, now>>

\* the audio clock advances
Tick ==
    /\ now + TickStep <= MaxTime
    /\ now' = now + TickStep
    /\ UNCHANGED <<answer, isPlaying, ctxCount, abortRef, aborted, active, pending, halted, sessions>>

\* the playback steps leave the chat turn and the stop counter alone
Chat == <<stopCalls, turn, chat, messageContent, players>>

Next ==
    \/ handlePlay(MaxSessions) /\ UNCHANGED Chat
    \/ \E s \in 1..Len(sessions) : DelayElapsed(s, MaxRequests) /\ UNCHANGED Chat
    \/ \E s \in 1..Len(sessions), resp \in Responses : SynthResolve(s, resp) /\ UNCHANGED Chat
    \/ \E src \in pending : OnEnded(src) /\ UNCHANGED Chat
    \/ Tick /\ UNCHANGED Chat

Spec == Init /\ [][Next]_vars

\* one play of an answer of up to three sentences, with stop
SoloInit == InitWith(SampleAnswers \cup LongAnswers)

SoloNext ==
    \/ handlePlay(1) /\ UNCHANGED Chat
    \/ \E s \in 1..Len(sessions) : DelayElapsed(s, MaxSoloRequests) /\ UNCHANGED Chat
    \/ \E s \in 1..Len(sessions), resp \in Responses : SynthResolve(s, resp) /\ UNCHANGED Chat
    \/ \E src \in pending : OnEnded(src) /\ UNCHANGED Chat
    \/ Tick /\ UNCHANGED Chat

SoloSpec == SoloInit /\ [][SoloNext]_vars

\* stopAudio called as a function of its own, whatever the state of the player
DirectStop ==
    /\ stopCalls < MaxStopCalls
    /\ stopAudio
    /\ stopCalls' = stopCalls + 1
    /\ UNCHANGED <<turn, chat, messageContent, players>>

\* one play of an answer, with stopAudio callable in every state
StopNext ==
    \/ DirectStop
    \/ handlePlay(1) /\ UNCHANGED Chat
    \/ \E s \in 1..Len(sessions) : DelayElapsed(s, MaxRequests) /\ UNCHANGED Chat
    \/ \E s \in 1..Len(sessions), resp \in Responses : SynthResolve(s, resp) /\ UNCHANGED Chat
    \/ \E src \in pending : OnEnded(src) /\ UNCHANGED Chat
    \/ Tick /\ UNCHANGED Chat

StopSpec == Init /\ [][StopNext]_vars

----------------------------------------------------------------------------
(* The segmenter of handlePlay on every text of a bounded alphabet *)

\* length of the texts
MaxTextLen == 6

\* a letter, a space, a Latin full stop and the hamza of the split pattern (U+0621)
Alphabet == {"a", " ", ".", "U+0621"}

\* two clauses separated by the Arabic comma (U+060C), and a word that ends in hamza
ArabicAnswers ==
    { <<"a", "b", "c", "U+060C", "d", "e", "f", ".">>,
      <<"a", "b", "U+0621", " ", "c", "d", "e", ".">> }

RECURSIVE TextsOfLength(_)
TextsOfLength(n) ==
    IF n = 0 THEN {<<>>}
    ELSE {Append(text, c) : text \in TextsOfLength(n - 1), c \in Alphabet}

Texts == UNION {TextsOfLength(n) : n \in 0..MaxTextLen}

SegmentInit == InitWith(Texts \cup LongAnswers \cup ArabicAnswers)

\* play and stop: every play segments the answer anew
SegmentNext == handlePlay(MaxSessions) /\ UNCHANGED Chat

SegmentSpec == SegmentInit /\ [][SegmentNext]_vars

----------------------------------------------------------------------------
(* splitContent of ChatMessage on every content of a bounded alphabet; the *)
(* keyword is taken as one character of the content                        *)

\* length of the contents
MaxContentLen == 4

verbatimKeyword == "OFFICIAL VERBATIM RECORD"

\* content.includes(verbatimKeyword)
IncludesKeyword(str) == \E i \in 1..Len(str) : str[i] = verbatimKeyword

\* content.split(verbatimKeyword): the texts between the occurrences
RECURSIVE SplitAtKeyword(_, _, _, _)
SplitAtKeyword(str, i, cur, out) ==
    IF i > Len(str) THEN Append(out, cur)
    ELSE IF str[i] = verbatimKeyword
         THEN SplitAtKeyword(str, i + 1, <<>>, Append(out, cur))
         ELSE SplitAtKeyword(str, i + 1, Append(cur, str[i]), out)

\* .replace(/^[:\s-]+/, '')
RECURSIVE StripLeading(_)
StripLeading(str) ==
    IF str # <<>> /\ Head(str) \in {":", "-"} \cup WhiteSpace
    THEN StripLeading(Tail(str)) ELSE str

\* parts[1] of the code is the second part; none stands for verbatim: null
splitContent(str) ==
    IF IncludesKeyword(str)
    THEN LET parts == SplitAtKeyword(str, 1, <<>>, <<>>)
         IN  [answer |-> parts[1], verbatim |-> StripLeading(parts[2]), none |-> FALSE]
    ELSE [answer |-> str, verbatim |-> <<>>, none |-> TRUE]

ContentAlphabet == {"a", ":", " ", verbatimKeyword}

RECURSIVE ContentsOfLength(_)
ContentsOfLength(n) ==
    IF n = 0 THEN {<<>>}
    ELSE {Append(str, c) : str \in ContentsOfLength(n - 1), c \in ContentAlphabet}

Contents == UNION {ContentsOfLength(n) : n \in 0..MaxContentLen}

SplitInit ==
    /\ messageContent \in Contents
    /\ answer = splitContent(messageContent).answer
    /\ isPlaying = FALSE
    /\ ctxCount = 0
    /\ abortRef = 0
    /\ aborted = {}
    /\ active = {}
    /\ pending = {}
    /\ halted = {}
    /\ sessions = <<>>
    /\ now = 0
    /\ stopCalls = 0
    /\ turn = NoTurn
    /\ chat = NoChat
    /\ players = NoPlayers

\* the message grows while it streams in and ChatMessage renders again
ContentGrows(c) ==
    /\ Len(messageContent) < MaxContentLen
    /\ messageContent' = Append(messageContent, c)
    /\ answer' = splitContent(messageContent').answer
    /\ UNCHANGED <<isPlaying, ctxCount, abortRef, aborted, active, pending, halted, sessions,
                   now, stopCalls, turn, chat, players>>

SplitNext == \E c \in ContentAlphabet : ContentGrows(c)

SplitSpec == SplitInit /\ [][SplitNext]_vars

----------------------------------------------------------------------------
(* Reading a message aloud while it streams in: every chunk appended by    *)
(* handleSend renders ChatMessage again, and a click on Read takes the     *)
(* answer of the latest render                                             *)

\* a letter, a full stop, and the marker arriving in two chunks
StreamAlphabet == {"a", ".", markerHead, markerTail}

\* content + text: the two parts of the marker, once adjacent, are the marker
Plus(content, c) ==
    IF content # <<>> /\ content[Len(content)] = markerHead /\ c = markerTail
    THEN [content EXCEPT ![Len(content)] = verbatimKeyword]
    ELSE Append(content, c)

\* setMessages(... content: fullContent ...) and the render that follows
ContentStreams(c) ==
    /\ Len(messageContent) < MaxContentLen
    /\ messageContent' = Plus(messageContent, c)
    /\ answer' = splitContent(messageContent').answer
    /\ UNCHANGED <<isPlaying, ctxCount, abortRef, aborted, active, pending, halted, sessions,
                   now, stopCalls, turn, chat, players>>

ReadInit == InitWith({<<>>})

ReadNext ==
    \/ \E c \in StreamAlphabet : ContentStreams(c)
    \/ handlePlay(1) /\ UNCHANGED Chat
    \/ \E s \in 1..Len(sessions) : DelayElapsed(s, MaxRequests) /\ UNCHANGED Chat
    \/ \E s \in 1..Len(sessions), resp \in Responses : SynthResolve(s, resp) /\ UNCHANGED Chat

ReadSpec == ReadInit /\ [][ReadNext]_vars

----------------------------------------------------------------------------
(* One generation turn: App.handleSend consuming the async generator       *)
(* GeminiService.sendMessageStream.  The repository holds two versions of  *)
(* the service (services/geminiService.ts, which wraps the error, and      *)
(* unnamed/part_001, which retries in a loop) and three versions of        *)
(* handleSend in App.tsx (lines 99, 452 and 775).                          *)

\* remote chunks received in one turn, over all its attempts
MaxChunks == 3

\* <<service, handleSend>>: handleSend of line 99 passes the image argument
\* that only part_001 accepts
Variants ==
    { <<"part_001", "App_99">>,
      <<"part_001", "App_452">>,
      <<"part_001", "App_775">>,
      <<"geminiService", "App_452">>,
      <<"geminiService", "App_775">> }

maxRetries(svc) == IF svc = "part_001" THEN 2 ELSE 1

\* chunks of the remote stream: chunk.text and the web.uri of its
\* groundingChunks ("" is a grounding chunk without web.uri)
RemoteChunks ==
    { [text |-> <<>>,    uris |-> <<>>],
      [text |-> <<"a">>, uris |-> <<>>],
      [text |-> <<"b">>, uris |-> <<"u1">>],
      [text |-> <<>>,    uris |-> <<"u2", "u1">>],
      [text |-> <<"a">>, uris |-> <<"u1", "u1">>],
      [text |-> <<>>,    uris |-> <<"">>] }

\* errors thrown by the remote call or by its stream: name and message as
\* sequences of words, status the enumerable own property of an ApiError
\* ("" for an error without one)
RemoteErrors ==
    { [name |-> "ApiError",  message |-> <<"RESOURCE_EXHAUSTED">>, status |-> "429"],
      [name |-> "Error",     message |-> <<"quota", " exceeded">>, status |-> ""],
      [name |-> "ApiError",  message |-> <<"unauthorized">>,       status |-> "401"],
      [name |-> "TypeError", message |-> <<"fetch failed">>,       status |-> ""] }

Error(message) == [name |-> "Error", message |-> message, status |-> ""]
QUOTA_EXHAUSTED == <<"QUOTA", "_EXHAUSTED">>
INVALID_KEY == <<"INVALID_KEY">>

\* String(error) is "name: message"
String(error) == <<error.name, ": ">> \o error.message

\* JSON.stringify(error) holds the enumerable own properties only: never the message
JSONstringify(error) ==
    IF error.status = "" THEN <<"{}">>
    ELSE <<"{\"name\":", error.name, ",\"status\":", error.status, "}">>

LowerWord(w) ==
    CASE w = "RESOURCE_EXHAUSTED" -> "resource_exhausted"
      [] w = "QUOTA"       -> "quota"
      [] w = "_EXHAUSTED"  -> "_exhausted"
      [] w = "INVALID_KEY" -> "invalid_key"
      [] w = "ApiError"    -> "apierror"
      [] w = "UNAUTHORIZED" -> "unauthorized"
      [] w = "API key not found" -> "api key not found"
      [] w = "TypeError"   -> "typeerror"
      [] w = "Error"       -> "error"
      [] OTHER             -> w

toLowerCase(str) == [i \in 1..Len(str) |-> LowerWord(str[i])]

includes(str, word) == \E i \in 1..Len(str) : str[i] = word

isQuotaError(svc, error) ==
    LET errorStr == toLowerCase(IF svc = "part_001" THEN JSONstringify(error)
                                                    ELSE String(error))
    IN  includes(errorStr, "429") \/ includes(errorStr, "resource_exhausted")
            \/ includes(errorStr, "quota")

isKeyError(error) ==
    LET errorStr == toLowerCase(String(error))
    IN  includes(errorStr, "401") \/ includes(errorStr, "unauthorized")
            \/ includes(errorStr, "invalid_api_key") \/ includes(errorStr, "api key not found")

\* a catch that retries whatever the error is
ShouldRetryAnyError(svc, error, retries) ==
    svc = "part_001" /\ retries < maxRetries(svc)

\* the catch of part_001 retries; geminiService.ts has no loop around its try
ShouldRetry(svc, error, retries) ==
    svc = "part_001" /\ isQuotaError(svc, error) /\ retries < maxRetries(svc)

\* a catch that hides the cause
ThrownGeneric(svc, error) == Error(<<"Generation failed">>)

\* a catch that tests for the key error first
ThrownKeyFirst(svc, error) ==
    IF svc = "part_001" THEN error
    ELSE IF isKeyError(error) THEN Error(INVALID_KEY)
    ELSE IF isQuotaError(svc, error) THEN Error(QUOTA_EXHAUSTED)
    ELSE error

\* what the catch throws to the consumer of the generator
Thrown(svc, error) ==
    IF svc = "part_001" THEN error
    ELSE IF isQuotaError(svc, error) THEN Error(QUOTA_EXHAUSTED)
    ELSE IF isKeyError(error) THEN Error(INVALID_KEY)
    ELSE error

\* a wait of the same length before every retry
delayFixed(retries) == 1500

delay(retries) == 1500 * retries

Range(seq) == {seq[i] : i \in 1..Len(seq)}

\* the sources pushed for one chunk: the uris not in seenUris, each once
RECURSIVE NewSources(_, _)
NewSources(uris, seenUris) ==
    IF uris = <<>> THEN <<>>
    ELSE LET uri == Head(uris)
         IN  IF uri # "" /\ uri \notin seenUris
             THEN <<uri>> \o NewSources(Tail(uris), seenUris \cup {uri})
             ELSE NewSources(Tail(uris), seenUris)

\* a generator that yields for every remote chunk
ShouldYieldAlways(text, sources) == TRUE

ShouldYield(text, sources) == text # <<>> \/ Len(sources) > 0

\* a consumer that puts the delta in front of the content
AppendTextInFront(content, text) == text \o content

\* content += chunk.text
AppendText(content, text) == content \o text

\* a consumer that keeps only the sources of the latest chunk
ReplaceSources(sources, chunkSources) == chunkSources

\* sources = [...sources, ...chunk.sources]
AppendSources(sources, chunkSources) == sources \o chunkSources

\* the type handed to setErrorState / setError by the catch of handleSend
ErrorType(app, e) ==
    IF app = "App_452"
    THEN IF e.message = INVALID_KEY THEN "key"
         ELSE IF e.message = QUOTA_EXHAUSTED THEN "quota"
         ELSE "general"
    ELSE IF app = "App_99" THEN "general"
    ELSE "none"

\* a catch that writes the same notice whatever the error is
ErrorContentGeneral(app, content, e) ==
    IF app = "App_99" THEN content ELSE <<"errorGeneral">>

\* the assistant message's content after the catch of handleSend
ErrorContent(app, content, e) ==
    IF app = "App_452"
    THEN IF e.message = INVALID_KEY THEN <<"errorKey">>
         ELSE IF e.message = QUOTA_EXHAUSTED THEN <<"errorQuota">>
         ELSE IF e.message # <<>> THEN <<"API Error: ">> \o e.message
         ELSE <<"errorGeneral">>
    ELSE IF app = "App_775" THEN <<"Consultation failed.">>
    ELSE content

NoError == [name |-> "", message |-> <<>>, status |-> ""]
NoChunk == [text |-> <<>>, sources |-> <<>>, none |-> TRUE]

Player == <<answer, isPlaying, ctxCount, abortRef, aborted, active, pending, halted, sessions, now>>

\* handleSend up to the call of sendMessageStream: the assistant message is
\* created empty and isLoading is set
handleSend(v) ==
    /\ turn.pc = "idle"
    /\ turn' = [pc |-> "call", svc |-> v[1], app |-> v[2],
                retries |-> 0, seenUris |-> {},
                content |-> <<>>, sources |-> <<>>, isLoading |-> TRUE, error |-> "none",
                delivered |-> NoError,
                \* history of the turn
                calls |-> 0, raised |-> <<>>, slept |-> <<>>,
                received |-> 0, emitted |-> 0, lastChunk |-> NoChunk, yielded |-> <<>>,
                attemptText |-> <<>>, attemptSources |-> <<>>, firstSeen |-> <<>>]
    /\ UNCHANGED <<Player, stopCalls, chat, messageContent, players>>

\* one attempt begins: ai.models.generateContentStream and a fresh seenUris
generateContentStream ==
    /\ turn.pc = "call"
    /\ turn' = [turn EXCEPT !.pc = "stream", !.calls = @ + 1, !.seenUris = {},
                            !.attemptText = <<>>, !.attemptSources = <<>>]
    /\ UNCHANGED <<Player, stopCalls, chat, messageContent, players>>

\* one iteration of `for await (const chunk of responseStream)`, and, when
\* the generator yields, the iteration of handleSend's loop that consumes it
StreamChunk(chunk) ==
    /\ turn.pc = "stream"
    /\ turn.received < MaxChunks
    /\ LET sources == NewSources(chunk.uris, turn.seenUris)
           yields  == ShouldYield(chunk.text, sources)
       IN  turn' = [turn EXCEPT
                       !.received = @ + 1,
                       !.seenUris = @ \cup Range(sources),
                       !.attemptText = @ \o chunk.text,
                       !.attemptSources = @ \o sources,
                       !.firstSeen = @ \o NewSources(chunk.uris, Range(@)),
                       !.emitted = IF yields THEN @ + 1 ELSE @,
                       !.lastChunk = IF yields
                                     THEN [text |-> chunk.text, sources |-> sources, none |-> FALSE]
                                     ELSE @,
                       !.content = IF yields /\ chunk.text # <<>>
                                   THEN AppendText(@, chunk.text) ELSE @,
                       !.yielded = IF yields
                                   THEN Append(@, [text |-> chunk.text, sources |-> sources])
                                   ELSE @,
                       !.sources = IF yields /\ sources # <<>>
                                   THEN AppendSources(@, sources) ELSE @]
    /\ UNCHANGED <<Player, stopCalls, chat, messageContent, players>>

\* the remote call or its stream throws: the catch of sendMessageStream, and,
\* when it throws on, catch and finally of handleSend
StreamThrows(error) ==
    /\ turn.pc = "stream"
    /\ IF ShouldRetry(turn.svc, error, turn.retries)
       THEN turn' = [turn EXCEPT !.raised = Append(@, error),
                                 !.retries = @ + 1,
                                 !.slept = Append(@, delay(turn.retries + 1)),
                                 !.pc = "sleep"]
       ELSE LET e == Thrown(turn.svc, error)
            IN  turn' = [turn EXCEPT !.raised = Append(@, error),
                                     !.delivered = e,
                                     !.error = ErrorType(turn.app, e),
                                     !.content = ErrorContent(turn.app, @, e),
                                     !.isLoading = FALSE,
                                     !.pc = "failed"]
    /\ UNCHANGED <<Player, stopCalls, chat, messageContent, players>>

\* await sleep(delay) returns and the loop continues
SleepElapsed ==
    /\ turn.pc = "sleep"
    /\ turn' = [turn EXCEPT !.pc = "call"]
    /\ UNCHANGED <<Player, stopCalls, chat, messageContent, players>>

\* the remote stream ends: the generator returns, handleSend leaves its loop
StreamEnds ==
    /\ turn.pc = "stream"
    /\ turn' = [turn EXCEPT !.pc = "done", !.isLoading = FALSE]
    /\ UNCHANGED <<Player, stopCalls, chat, messageContent, players>>

TurnInit == InitWith({<<>>})

TurnNext ==
    \/ \E v \in Variants : handleSend(v)
    \/ generateContentStream
    \/ \E chunk \in RemoteChunks : StreamChunk(chunk)
    \/ \E error \in RemoteErrors : StreamThrows(error)
    \/ SleepElapsed
    \/ StreamEnds

TurnSpec == TurnInit /\ [][TurnNext]_vars

----------------------------------------------------------------------------
(* The catch of sendMessageStream in services/geminiService.ts on every    *)
(* error whose message is made of a few words                              *)

\* words in the message of an error
MaxErrorLen == 2

\* the texts isQuotaError and isKeyError look for, in the case the remote
\* service may write them, and a text neither of them looks for
ErrorWords ==
    { "429", "RESOURCE_EXHAUSTED", "quota",
      "401", "UNAUTHORIZED", "invalid_api_key", "API key not found",
      "fetch failed" }

RECURSIVE MessagesOfLength(_)
MessagesOfLength(n) ==
    IF n = 0 THEN {<<>>}
    ELSE {Append(message, w) : message \in MessagesOfLength(n - 1), w \in ErrorWords}

Errors ==
    RemoteErrors \cup
    [name : {"Error", "ApiError"},
     message : UNION {MessagesOfLength(n) : n \in 0..MaxErrorLen},
     status : {""}]

ClassifyInit == InitWith({<<>>})

ClassifyNext ==
    \/ \E v \in {w \in Variants : w[1] = "geminiService"} : handleSend(v)
    \/ generateContentStream
    \/ \E error \in Errors : StreamThrows(error)

ClassifySpec == ClassifyInit /\ [][ClassifyNext]_vars

----------------------------------------------------------------------------
(* The conversation of App (App.tsx:396-735): the list of messages, the    *)
(* views, and several turns of handleSend, each a closure with its own     *)
(* assistantMsgId and fullContent.  The generator is taken as the source   *)
(* of yielded chunks, of an error, or of the end of the stream.            *)

\* turns started in one run
MaxTurns == 2
\* Date.now() runs from 1 to MaxClock
MaxClock == 3
\* chunks yielded over all turns of a run
MaxTurnChunks == 2

\* chunks as the generator yields them
StreamChunks ==
    { [text |-> <<"a">>, sources |-> <<>>],
      [text |-> <<>>,    sources |-> <<"u1">>] }

\* errors as services/geminiService.ts throws them
StreamErrors == {Thrown("geminiService", error) : error \in RemoteErrors}

RECURSIVE SumReceived(_)
SumReceived(turns) ==
    IF turns = <<>> THEN 0 ELSE turns[1].received + SumReceived(Tail(turns))

\* `by` records the turn that created a message (0: none)
welcome ==
    [id |-> 0, role |-> "assistant", content |-> <<"introMessage">>, sources |-> <<>>, by |-> 0]

\* handleSend(text, currentMessages) up to the call of sendMessageStream;
\* prev is the list that the queued setMessages calls leave behind
StartTurn(prev) ==
    LET n == Len(chat.turns) + 1
        userMsg == [id |-> chat.clock, role |-> "user", content |-> <<"prompt">>,
                    sources |-> <<>>, by |-> n]
        assistantMsgId == chat.clock + 1
        assistantMsg == [id |-> assistantMsgId, role |-> "assistant", content |-> <<>>,
                         sources |-> <<>>, by |-> n]
    IN  chat' = [chat EXCEPT
                    !.view = "chat",
                    !.messages = prev \o <<userMsg, assistantMsg>>,
                    !.isLoading = TRUE,
                    !.turns = Append(@, [assistantMsgId |-> assistantMsgId, pc |-> "streaming",
                                         fullContent |-> <<>>, received |-> 0])]

\* the form is submitted with a non-empty input; in the chat view the submit
\* button is disabled while isLoading, the form of the home view never is
handleInquirySubmit ==
    /\ Len(chat.turns) < MaxTurns
    /\ chat.view = "home" \/ ~chat.isLoading
    /\ StartTurn(IF chat.view = "home" THEN <<welcome>> ELSE chat.messages)
    /\ UNCHANGED <<Player, stopCalls, turn, messageContent, players>>

\* the Home button of the sidebar
GoHome ==
    /\ chat.view = "chat"
    /\ chat' = [chat EXCEPT !.view = "home"]
    /\ UNCHANGED <<Player, stopCalls, turn, messageContent, players>>

\* a millisecond passes
ClockTick ==
    /\ chat.clock < MaxClock
    /\ chat' = [chat EXCEPT !.clock = @ + 1]
    /\ UNCHANGED <<Player, stopCalls, turn, messageContent, players>>

\* one iteration of the for-await loop of turn t
ChunkArrives(t, chunk) ==
    /\ chat.turns[t].pc = "streaming"
    /\ SumReceived(chat.turns) < MaxTurnChunks
    /\ LET id == chat.turns[t].assistantMsgId
           fullContent == IF chunk.text # <<>>
                          THEN AppendText(chat.turns[t].fullContent, chunk.text)
                          ELSE chat.turns[t].fullContent
       IN  chat' = [chat EXCEPT
                       !.turns[t].fullContent = fullContent,
                       !.turns[t].received = @ + 1,
                       !.messages = [j \in 1..Len(@) |->
                           IF @[j].id = id
                           THEN [@[j] EXCEPT
                                    !.content = IF chunk.text # <<>> THEN fullContent ELSE @,
                                    !.sources = IF chunk.sources # <<>>
                                                THEN AppendSources(@, chunk.sources) ELSE @]
                           ELSE @[j]]]
    /\ UNCHANGED <<Player, stopCalls, turn, messageContent, players>>

\* the generator of turn t returns: handleSend leaves its loop and runs finally
RemoteEnds(t) ==
    /\ chat.turns[t].pc = "streaming"
    /\ chat' = [chat EXCEPT !.turns[t].pc = "done", !.isLoading = FALSE]
    /\ UNCHANGED <<Player, stopCalls, turn, messageContent, players>>

\* a handleSend without finally: the catch leaves the loading flag set
RemoteThrowsWithoutFinally(t, e) ==
    /\ chat.turns[t].pc = "streaming"
    /\ LET id == chat.turns[t].assistantMsgId
       IN  chat' = [chat EXCEPT
                       !.turns[t].pc = "failed",
                       !.messages = [j \in 1..Len(@) |->
                           IF @[j].id = id
                           THEN [@[j] EXCEPT !.content = ErrorContent("App_452", @, e)]
                           ELSE @[j]]]
    /\ UNCHANGED <<Player, stopCalls, turn, messageContent, players>>

\* the generator of turn t throws: catch and finally of handleSend
RemoteThrows(t, e) ==
    /\ chat.turns[t].pc = "streaming"
    /\ LET id == chat.turns[t].assistantMsgId
       IN  chat' = [chat EXCEPT
                       !.turns[t].pc = "failed",
                       !.isLoading = FALSE,
                       !.messages = [j \in 1..Len(@) |->
                           IF @[j].id = id
                           THEN [@[j] EXCEPT !.content = ErrorContent("App_452", @, e)]
                           ELSE @[j]]]
    /\ UNCHANGED <<Player, stopCalls, turn, messageContent, players>>

ChatInit == InitWith({<<>>})

ChatNext ==
    \/ handleInquirySubmit
    \/ GoHome
    \/ ClockTick
    \/ \E t \in 1..Len(chat.turns), chunk \in StreamChunks : ChunkArrives(t, chunk)
    \/ \E t \in 1..Len(chat.turns) : RemoteEnds(t)
    \/ \E t \in 1..Len(chat.turns), e \in StreamErrors : RemoteThrows(t, e)

ChatSpec == ChatInit /\ [][ChatNext]_vars

----------------------------------------------------------------------------
(* The message list: App renders one ChatMessage per message (key m.id),   *)
(* and every ChatMessage holds hooks of its own.  The awaits of one loop   *)
(* iteration (timer, generateSpeech, decodeAudioData) are taken as one     *)
(* step here; their interleavings inside one message are those of Spec.    *)

\* answers of one and of two segments
ListAnswers ==
    { <<"a", "b", ".">>,
      <<"a", "b", ".", " ", "c", "d", "?", "e">> }

RECURSIVE SumPlays(_, _)
SumPlays(ps, m) == IF m = 0 THEN 0 ELSE Len(ps[m].sessions) + SumPlays(ps, m - 1)

\* the sessions started so far, over all messages
TotalPlays == SumPlays(players, MaxMessages)

\* stopAudio on the hooks p of one ChatMessage
Stopped(p) ==
    [p EXCEPT !.aborted = IF p.abortRef # 0 THEN @ \cup {p.abortRef} ELSE @,
              !.active = {},
              !.isPlaying = FALSE]

\* handlePlay while not playing, on the hooks p of one ChatMessage
Started(p) ==
    LET id == Len(p.sessions) + 1
        segments == Segments(p.answer)
    IN  [p EXCEPT !.isPlaying = TRUE,
                  !.abortRef = id,
                  !.sessions = Append(@, [segments |-> segments,
                                          i |-> 1,
                                          pc |-> LoopTop(segments, 1, id, p.aborted)])]

\* a player shared by the list: a play on one message stops every other message
handlePlayOfShared(m) ==
    /\ IF players[m].isPlaying
       THEN players' = [players EXCEPT ![m] = Stopped(players[m])]
       ELSE /\ TotalPlays < MaxPlays
            /\ players' = [n \in Messages |->
                              IF n = m THEN Started(players[m]) ELSE Stopped(players[n])]
    /\ UNCHANGED <<Player, stopCalls, turn, chat, messageContent>>

\* a click on the Read/Stop button of message m
handlePlayOf(m) ==
    /\ IF players[m].isPlaying
       THEN players' = [players EXCEPT ![m] = Stopped(players[m])]
       ELSE /\ TotalPlays < MaxPlays
            /\ players' = [players EXCEPT ![m] = Started(players[m])]
    /\ UNCHANGED <<Player, stopCalls, turn, chat, messageContent>>

\* one iteration of the loop of session s of message m: the synthesis returns
\* audio, which is scheduled, or nothing, and the loop goes to its next segment
SegmentDone(m, s, kind) ==
    LET p == players[m]
        sess == p.sessions[s]
        src == Source(s, sess.i)
        pc == IF kind = "audio"
              THEN AfterSchedule(sess.segments, sess.i, p.abortRef, p.aborted)
              ELSE AfterEmpty(sess.segments, sess.i, p.abortRef, p.aborted)
    IN  /\ sess.pc = "delay"
        /\ players' = [players EXCEPT
               ![m].sessions[s].i = sess.i + 1,
               ![m].sessions[s].pc = pc,
               ![m].active = IF kind = "audio" THEN @ \cup {src} ELSE @,
               ![m].pending = IF kind = "audio" THEN @ \cup {src} ELSE @]
        /\ UNCHANGED <<Player, stopCalls, turn, chat, messageContent>>

\* source.onended of a source of message m
OnEndedOf(m, src) ==
    LET p == players[m]
        left == p.active \ {src}
    IN  /\ src \in p.pending
        /\ players' = [players EXCEPT
               ![m].pending = @ \ {src},
               ![m].active = left,
               ![m].isPlaying =
                   IF left = {} /\ IsLastSegment(p.sessions[src.sess].segments, src.seg)
                   THEN FALSE ELSE @]
        /\ UNCHANGED <<Player, stopCalls, turn, chat, messageContent>>

ListInit ==
    /\ players \in [Messages -> {Mounted(text) : text \in ListAnswers}]
    /\ answer = <<>>
    /\ messageContent = <<>>
    /\ isPlaying = FALSE
    /\ ctxCount = 0
    /\ abortRef = 0
    /\ aborted = {}
    /\ active = {}
    /\ pending = {}
    /\ halted = {}
    /\ sessions = <<>>
    /\ now = 0
    /\ stopCalls = 0
    /\ turn = NoTurn
    /\ chat = NoChat

ListNext ==
    \/ \E m \in Messages : handlePlayOf(m)
    \/ \E m \in Messages : \E s \in 1..Len(players[m].sessions), kind \in {"audio", "empty"} :
           SegmentDone(m, s, kind)
    \/ \E m \in Messages : \E src \in players[m].pending : OnEndedOf(m, src)

ListSpec == ListInit /\ [][ListNext]_vars

----------------------------------------------------------------------------
(* Properties *)

SessionIds == 1..Len(sessions)

\* the sources of session s whose ended event is still to come
PendingOf(s) == {src \in pending : src.sess = s}

\* the loop of session s has not returned
Looping(s) == sessions[s].pc # "done"

\* C1: at most one playback session of the message is active: once a newer
\* session was started by play(), the loop of an earlier session issues no
\* further synthesis request and schedules no further buffer, so two loops of
\* the message never request or schedule audio side by side.
C1_OneActiveSession ==
    [][\A s \in SessionIds :
          s < Len(sessions) => /\ sessions'[s].requested = sessions[s].requested
                               /\ sessions'[s].sched = sessions[s].sched]_vars

\* C2: whenever the controller is Idle after a session was started (it ended,
\* was stopped or failed), no buffer of the message is still in the active set.
C2_IdleHasNoActiveBuffer ==
    (Len(sessions) > 0 /\ ~isPlaying) => active = {}

\* C3: when stop() is called while a synthesis request of a session is in
\* flight, the resolution of that request schedules no buffer and adds nothing
\* to the active set.
C3_NoWorkAfterStopInFlight ==
    [][\A s \in SessionIds :
          (sessions[s].pc = "synth" /\ sessions[s].stopInFlight)
              => /\ sessions'[s].sched = sessions[s].sched
                 /\ \A src \in active' \ active : src.sess # s]_vars

\* C4: once stop() was called on a session, the session issues no synthesis
\* request for a segment it had not requested before the stop.
C4_NoRequestAfterStop ==
    [][\A s \in SessionIds :
          s \in aborted => sessions'[s].requested = sessions[s].requested]_vars

\* C5: a session that was started and never stopped has returned the controller
\* to Idle once its loop has processed all segments and every buffer it
\* scheduled has ended.
C5_FinishedSessionIsIdle ==
    \A s \in SessionIds :
        (s = Len(sessions) /\ aborted = {} /\ ~Looping(s) /\ PendingOf(s) = {})
            => ~isPlaying

\* C6: a buffer that played to its end leaves the active set, and its
\* completion handler moves the controller to Idle only if it is the last
\* buffer of the current session and no buffer remains active; the end of a
\* buffer of an earlier session never moves the controller to Idle while a
\* newer session is requesting or playing.
C6_OnlyCurrentSessionEnds ==
    [][\A src \in pending \ halted :
          src \notin pending'
              => /\ src \notin active'
                 /\ (isPlaying /\ ~isPlaying')
                        => /\ src.sess = Len(sessions)
                           /\ active' = {}
                           /\ src.seg = Len(sessions[src.sess].segments)]_vars

Last(seq) == seq[Len(seq)]

SegsOf(sched) == {sched[k].seg : k \in 1..Len(sched)}

\* C7: a failed synthesis call yields the empty result; a segment whose
\* synthesis returned the empty result gets no buffer and leaves nextStartTime,
\* the schedule and the active set as they were, and the loop goes on: unless
\* stop() was called it requests the next segment, and a loop that ends without
\* stop() and without a decoding failure has requested every segment.
C7_EmptyResultSkipsSegment ==
    /\ [](\A resp \in Responses :
              resp.kind \in {"error", "nodata"} => generateSpeech(resp) = Empty)
    /\ [](\A s \in SessionIds :
              LET r == sessions[s] IN
              /\ \A k \in 1..Len(r.results) :
                     r.results[k] = "empty"
                         => /\ r.requested[k] \notin SegsOf(r.sched)
                            /\ (r.requested[k] < Len(r.segments) /\ aborted = {})
                                   => \/ /\ Len(r.requested) > k
                                         /\ r.requested[k + 1] = r.requested[k] + 1
                                      \/ /\ Len(r.requested) = k
                                         /\ r.pc = "delay"
              /\ (r.pc = "done" /\ aborted = {} /\ \A k \in 1..Len(r.results) : r.results[k] # "throw")
                     => r.requested = [k \in 1..Len(r.segments) |-> k])
    /\ [][\A s \in SessionIds :
             (Len(sessions'[s].results) = Len(sessions[s].results) + 1
                 /\ Last(sessions'[s].results) = "empty")
                 => /\ sessions'[s].nextStartTime = sessions[s].nextStartTime
                    /\ sessions'[s].sched = sessions[s].sched
                    /\ active' = active
                    /\ pending' = pending]_vars

\* two empty results, then the third segment is requested and scheduled
C7_Witness ==
    \E s \in SessionIds :
        /\ sessions[s].results = <<"empty", "empty", "audio">>
        /\ sessions[s].requested = <<1, 2, 3>>
        /\ SegsOf(sessions[s].sched) = {3}

\* C8: within one session at most one synthesis request is in flight: the
\* request for the next segment is issued only after the previous request has
\* resolved and, on success, its buffer was scheduled; one delay precedes
\* every request.
C8_OneRequestInFlight ==
    \A s \in SessionIds :
        LET r == sessions[s]
            inFlight == Len(r.requested) - Len(r.results)
        IN  /\ inFlight \in {0, 1}
            /\ inFlight = 1 <=> r.pc = "synth"
            /\ \A k \in 1..Len(r.results) :
                   r.results[k] = "audio" => r.requested[k] \in SegsOf(r.sched)
            /\ \A k \in 2..Len(r.requested) : r.requested[k - 1] < r.requested[k]
            /\ r.delays = Len(r.requested) + (IF r.pc = "delay" THEN 1 ELSE 0)

\* the second request of a session is in flight after the first was scheduled
C8_Witness ==
    \E s \in SessionIds :
        /\ sessions[s].requested = <<1, 2>>
        /\ sessions[s].results = <<"audio">>
        /\ sessions[s].pc = "synth"

\* C9: every buffer of a session starts at max(nextStartTime, now) and then
\* nextStartTime = start + duration: the start is never in the past and never
\* before the end of the buffer scheduled before it, it is that end exactly
\* when the result arrived no later than it, and the arrival time otherwise.
C9_GaplessStart ==
    /\ [][\A s \in SessionIds :
             Len(sessions'[s].sched) = Len(sessions[s].sched) + 1
                 => LET e == Last(sessions'[s].sched)
                        free == sessions[s].nextStartTime
                    IN  /\ e.start = IF free >= now THEN free ELSE now
                        /\ sessions'[s].nextStartTime = e.start + e.dur
                        /\ e.start >= now
                        /\ e.start >= free
                        /\ e.start = free <=> now <= free
                        /\ now > free => e.start = now]_vars
    /\ [](\A s \in SessionIds :
              LET sched == sessions[s].sched IN
              /\ \A k \in 1..(Len(sched) - 1) : sched[k + 1].start >= sched[k].start + sched[k].dur
              /\ Len(sched) > 0 => sessions[s].nextStartTime = Last(sched).start + Last(sched).dur)

\* buffers of durations 10, 5, 20 that all arrived early start at t0, t0+10, t0+15
C9_Witness ==
    \E s \in SessionIds :
        LET sched == sessions[s].sched IN
        /\ Len(sched) = 3
        /\ <<sched[1].dur, sched[2].dur, sched[3].dur>> = <<10, 5, 20>>
        /\ sched[2].start = sched[1].start + 10
        /\ sched[3].start = sched[1].start + 15

\* C10: the buffers of a session are scheduled in the order of their segments
\* in the answer: a buffer of a later segment is never scheduled before, nor
\* given an earlier start time than, a buffer of an earlier segment.
C10_ScheduledInTextOrder ==
    \A s \in SessionIds :
        LET sched == sessions[s].sched IN
        \A j \in 1..Len(sched) : \A k \in 1..Len(sched) :
            j < k => /\ sched[j].seg < sched[k].seg
                     /\ sched[j].start <= sched[k].start

\* the first and the third segment are scheduled, the second one was skipped
C10_Witness ==
    \E s \in SessionIds :
        /\ sessions[s].results = <<"audio", "empty", "audio">>
        /\ Len(sessions[s].sched) = 2
        /\ sessions[s].sched[1].seg = 1
        /\ sessions[s].sched[2].seg = 3

\* C11: play() invoked while the controller is Playing acts exactly as stop():
\* it aborts the controller in abortControllerRef, halts every active buffer
\* and clears the active set, leaves the controller Idle, starts no session
\* and issues no synthesis request.
C11_PlayWhilePlayingStops ==
    [][(isPlaying /\ handlePlay(MaxSessions))
          => /\ stopAudio
             /\ abortRef # 0 /\ abortRef \in aborted'
             /\ active \subseteq halted'
             /\ active' = {}
             /\ ~isPlaying'
             /\ Len(sessions') = Len(sessions)
             /\ \A s \in SessionIds :
                    /\ sessions'[s].requested = sessions[s].requested
                    /\ sessions'[s].pc = sessions[s].pc]_vars

\* the toggle was used while a buffer was active: the buffer is halted, the
\* set is empty and the controller is Idle
C11_Witness ==
    /\ halted # {}
    /\ active = {}
    /\ ~isPlaying
    /\ abortRef \in aborted
    /\ Len(sessions) = 1

\* C12: stop() can be called in every state, also when no session was ever
\* started and when no buffer is active, and it completes without raising;
\* right after it the active set is empty, every buffer that was active has
\* been halted and the controller is Idle.
C12_StopIsTotal ==
    /\ [](stopCalls < MaxStopCalls => ENABLED DirectStop)
    /\ [][stopCalls' # stopCalls
             => /\ active' = {}
                /\ active \subseteq halted'
                /\ ~isPlaying'
                /\ (abortRef # 0 => abortRef \in aborted')]_vars

\* stop() was called before any session was started, and completed
C12_Witness ==
    /\ stopCalls >= 1
    /\ Len(sessions) = 0
    /\ abortRef = 0
    /\ active = {}
    /\ ~isPlaying

IsPrefix(s, t) == Len(s) <= Len(t) /\ SubSeq(t, 1, Len(s)) = s

\* every error the remote raised in this turn is classified as quota by the service
AllQuota == \A i \in 1..Len(turn.raised) : isQuotaError(turn.svc, turn.raised[i])

\* C13: when a turn is complete, the assistant message's sources hold every
\* distinct URI of the chunks received in the turn (over all its attempts)
\* exactly once, in the order in which they were first seen.
C13_SourcesDistinctFirstSeen ==
    turn.pc = "done" => turn.sources = turn.firstSeen

\* C14: during a turn every snapshot of the assistant message's content is a
\* prefix of the next one: the content is never truncated or rewritten.
C14_ContentOnlyGrows ==
    [][turn.pc # "idle" => IsPrefix(turn.content, turn'.content)]_vars

\* C14 (amended): every snapshot made for a chunk extends the content before
\* it; the content is rewritten only by the step that ends a failed turn,
\* which puts the failure notice of that handleSend in its place.
C14_ContentGrowsUntilFailure ==
    [][turn.pc # "idle"
          => IF turn'.pc = "failed"
             THEN turn'.content = ErrorContent(turn.app, turn.content, turn'.delivered)
             ELSE IsPrefix(turn.content, turn'.content)]_vars

\* the content grew by two deltas in one turn
C14_Witness ==
    /\ turn.pc = "done"
    /\ turn.emitted >= 2
    /\ Len(turn.content) >= 2

\* C15: a turn in which every attempt fails with a quota-classified error
\* makes exactly maxRetries + 1 remote calls and then fails.
C15_ExactlyMaxRetriesPlusOneCalls ==
    (turn.pc = "failed" /\ AllQuota) => turn.calls = maxRetries(turn.svc) + 1

\* C16: an error that the service does not classify as quota is never
\* retried: it is the last error of the turn, no call and no wait follows it,
\* and the turn has failed with the error the catch throws for it.
C16_OnlyQuotaIsRetried ==
    turn.pc # "idle" =>
        \A i \in 1..Len(turn.raised) :
            ~isQuotaError(turn.svc, turn.raised[i]) =>
                /\ i = Len(turn.raised)
                /\ turn.pc = "failed"
                /\ turn.calls = i
                /\ Len(turn.slept) = i - 1
                /\ turn.delivered = Thrown(turn.svc, turn.raised[i])
                /\ ~turn.isLoading

\* an attempt made after a retry failed with an error that is not quota
C16_Witness ==
    /\ turn.pc = "failed"
    /\ turn.calls = 2
    /\ Len(turn.raised) = 2
    /\ ~isQuotaError(turn.svc, Last(turn.raised))

C18_NoPartialStateSurvivesRetry ==
    (turn.pc = "done" /\ turn.retries > 0) =>
        /\ turn.content = turn.attemptText
        /\ turn.sources = turn.attemptSources

\* C19: the wait before the k-th retry is k times the wait before the first
\* retry, so the waits strictly increase; there is one wait before every
\* retry and none before the first attempt.
C19_LinearBackoff ==
    turn.pc # "idle" =>
        /\ \A k \in 1..Len(turn.slept) : turn.slept[k] = delay(1) * k
        /\ \A k \in 1..(Len(turn.slept) - 1) : turn.slept[k] < turn.slept[k + 1]
        /\ Len(turn.slept) = turn.retries
        /\ turn.calls = IF turn.pc = "sleep" THEN Len(turn.slept) ELSE
                        IF turn.pc = "call" THEN Len(turn.slept) ELSE Len(turn.slept) + 1

\* the second retry is under way, after waits of 1500 and 3000
C19_Witness ==
    /\ turn.pc = "stream"
    /\ turn.calls = 3
    /\ turn.slept = <<1500, 3000>>

\* C20: every chunk the generator yields carries a text delta or a new
\* source; a remote chunk with neither yields nothing.
C20_NoEmptyChunkYielded ==
    /\ [](turn.pc # "idle" /\ ~turn.lastChunk.none
             => turn.lastChunk.text # <<>> \/ turn.lastChunk.sources # <<>>)
    /\ [][(turn.pc = "stream" /\ turn'.pc = "stream" /\ turn'.received # turn.received
             /\ turn'.attemptText = turn.attemptText
             /\ turn'.seenUris = turn.seenUris)
          => (turn'.emitted = turn.emitted /\ turn'.lastChunk = turn.lastChunk
              /\ turn'.content = turn.content /\ turn'.sources = turn.sources)]_vars

\* a chunk was yielded and a remote chunk without text or new source was dropped
C20_Witness ==
    /\ turn.pc = "done"
    /\ turn.emitted >= 1
    /\ turn.received > turn.emitted

\* the text deltas of a sequence of chunks, concatenated
RECURSIVE TextOf(_)
TextOf(chunks) ==
    IF chunks = <<>> THEN <<>> ELSE chunks[1].text \o TextOf(Tail(chunks))

\* the sources of a sequence of chunks, concatenated
RECURSIVE SourcesOf(_)
SourcesOf(chunks) ==
    IF chunks = <<>> THEN <<>> ELSE chunks[1].sources \o SourcesOf(Tail(chunks))

\* C21: after the i-th yielded chunk has been consumed, and before the next
\* one is, the assistant message holds the concatenation of the text deltas
\* of chunks 1..i and all the sources of chunks 1..i; every chunk that is
\* yielded changes the message (no batching).
C21_SnapshotAfterEveryChunk ==
    /\ [](turn.pc \in {"call", "stream", "sleep", "done"}
             => /\ turn.content = TextOf(turn.yielded)
                /\ turn.sources = SourcesOf(turn.yielded)
                /\ Len(turn.yielded) = turn.emitted)
    /\ [][(turn.pc = "stream" /\ turn'.pc = "stream" /\ turn'.emitted # turn.emitted)
             => (turn'.content # turn.content \/ turn'.sources # turn.sources)]_vars

\* three chunks were consumed, with text and with sources
C21_Witness ==
    /\ turn.pc = "stream"
    /\ turn.emitted = 3
    /\ Len(turn.content) >= 2
    /\ Len(turn.sources) >= 2

\* the strings that the catch blocks of handleSend write into a message
IsNotice(str) ==
    \/ str \in {<<"errorKey">>, <<"errorQuota">>, <<"errorGeneral">>, <<"Consultation failed.">>}
    \/ (str # <<>> /\ Head(str) = "API Error: ")

C23_NoticeFollowsClassification ==
    (turn.pc = "failed" /\ turn.svc = "geminiService" /\ turn.app = "App_452") =>
        LET error == Last(turn.raised)
        IN  IF isQuotaError(turn.svc, error)
            THEN turn.content = <<"errorQuota">> /\ turn.error = "quota"
            ELSE IF isKeyError(error)
            THEN turn.content = <<"errorKey">> /\ turn.error = "key"
            ELSE /\ turn.error = "general"
                 /\ turn.content \in {<<"errorGeneral">>, <<"API Error: ">> \o error.message}

\* a key error ended a turn that had already shown text
C23_Witness ==
    /\ turn.pc = "failed"
    /\ turn.svc = "geminiService"
    /\ turn.app = "App_452"
    /\ turn.emitted >= 1
    /\ turn.content = <<"errorKey">>

TurnIds == 1..Len(chat.turns)

\* C24: a turn always ends its loading state: the step in which the stream
\* of a turn completes or fails, whatever the error, clears isLoading; when
\* no turn is streaming the flag is clear and the next query is accepted;
\* and an accepted query starts a turn of its own, with a new user message
\* and a new, empty assistant message at the end of the list.
C24_TurnEndsLoadingAndNextIsAccepted ==
    /\ [][\A t \in TurnIds :
             (chat.turns[t].pc = "streaming" /\ chat'.turns[t].pc # "streaming")
                 => ~chat'.isLoading]_vars
    /\ []((\A t \in TurnIds : chat.turns[t].pc \in {"done", "failed"})
             => /\ ~chat.isLoading
                /\ Len(chat.turns) < MaxTurns => ENABLED handleInquirySubmit)
    /\ [][Len(chat'.turns) > Len(chat.turns)
             => LET n == Len(chat'.turns)
                    k == Len(chat'.messages)
                IN  /\ n = Len(chat.turns) + 1
                    /\ chat'.turns[n].pc = "streaming"
                    /\ chat'.isLoading
                    /\ k >= 2
                    /\ chat'.messages[k - 1].role = "user" /\ chat'.messages[k - 1].by = n
                    /\ chat'.messages[k].role = "assistant" /\ chat'.messages[k].by = n
                    /\ chat'.messages[k].content = <<>>
                    /\ \A j \in 1..(k - 2) : chat'.messages[j].by # n]_vars

\* a turn failed, the next query was accepted in the chat view and its turn completed
C24_Witness ==
    /\ Len(chat.turns) = 2
    /\ chat.turns[1].pc = "failed"
    /\ chat.turns[2].pc = "done"
    /\ ~chat.isLoading
    /\ Len(chat.messages) = 5
    /\ IsNotice(chat.messages[3].content)
    /\ chat.messages[5].content # <<>>

\* C29: the updates of a streaming turn change only the assistant message
\* created for that turn: a step of turn t leaves every other message as it
\* is, and once a turn has completed or failed its assistant message is not
\* modified by any step of any turn.
C29_OnlyOwnAssistantMessageChanges ==
    [][\A t \in TurnIds :
          (chat'.turns[t] # chat.turns[t])
              => /\ Len(chat'.messages) = Len(chat.messages)
                 /\ \A j \in 1..Len(chat.messages) :
                        \/ chat'.messages[j] = chat.messages[j]
                        \/ /\ chat.messages[j].by = t
                           /\ chat.messages[j].role = "assistant"]_vars

\* the segments in order, joined
RECURSIVE Concat(_)
Concat(segs) == IF segs = <<>> THEN <<>> ELSE Head(segs) \o Concat(Tail(segs))

\* C25: the segments that a play obtains from the answer, concatenated in
\* order, are the answer: no character is lost or duplicated.
C25_SegmentsReproduceText ==
    \A s \in SessionIds : Concat(sessions[s].segments) = answer

\* C26: the answer is split exactly at the sentence delimiters (. ! ? newline,
\* Arabic question mark U+061F, Arabic full stop U+06D4, Arabic comma U+060C),
\* each delimiter ends the piece before it, and the segments are exactly
\* the pieces of trimmed length above 2, in text order; three sentences
\* ending in . ? and U+06D4 give 3 segments.
C26_SplitsAtSentenceDelimiters ==
    \A s \in SessionIds :
        LET SentenceDelimiters == {".", "!", "?", "\n", "U+061F", "U+06D4", "U+060C"}
            pieces == ReduceJoin(JsSplit(answer))
        IN  /\ Concat(pieces) = answer
            /\ \A k \in 1..Len(pieces) : \A i \in 1..Len(pieces[k]) :
                   (pieces[k][i] \in SentenceDelimiters) <=> (i = Len(pieces[k]) /\ k < Len(pieces))
            /\ sessions[s].segments = SelectSeq(pieces, KeepSegment)
            /\ answer \in LongAnswers => Len(sessions[s].segments) = 3

\* the segments that end in a delimiter of the split pattern
Terminated(segs) == SelectSeq(segs, LAMBDA seg : Last(seg) \in Delimiters)

\* C27: segmentation is deterministic and stable on growing prefixes: every
\* play of the same answer obtains the same segments, and for every prefix P
\* of the answer the delimiter-terminated segments of P are a prefix of the
\* segments of the answer.
C27_StableOnGrowingPrefixes ==
    /\ \A s \in SessionIds : sessions[s].segments = Segments(answer)
    /\ \A s, r \in SessionIds : sessions[s].segments = sessions[r].segments
    /\ \A n \in 0..Len(answer) :
           IsPrefix(Terminated(Segments(SubSeq(answer, 1, n))), Segments(answer))

\* an answer of two segments was played twice
C27_Witness ==
    /\ Len(sessions) = 2
    /\ Len(sessions[2].segments) = 2
    /\ Len(Terminated(Segments(SubSeq(answer, 1, 3)))) = 1

\* C28: for a content that holds the keyword, once or several times, the
\* answer is the text before its first occurrence and the verbatim block is
\* all that follows the first occurrence, without its leading colons, dashes
\* and blanks; for a content without the keyword the answer is the whole
\* content and there is no verbatim block.
C28_SplitAtFirstKeyword ==
    LET parsed == splitContent(messageContent)
    IN  IF IncludesKeyword(messageContent)
        THEN LET first == CHOOSE i \in 1..Len(messageContent) :
                              /\ messageContent[i] = verbatimKeyword
                              /\ \A j \in 1..(i - 1) : messageContent[j] # verbatimKeyword
             IN  /\ answer = SubSeq(messageContent, 1, first - 1)
                 /\ ~parsed.none
                 /\ parsed.verbatim =
                        StripLeading(SubSeq(messageContent, first + 1, Len(messageContent)))
        ELSE answer = messageContent /\ parsed.none

\* C30: the audio context of a message is made by the first play and not
\* before; however play and stop alternate, at most one context is ever
\* made, and every session uses that one.
C30_OneLazyAudioContext ==
    /\ ctxCount <= 1
    /\ ctxCount = 0 <=> Len(sessions) = 0
    /\ \A s \in SessionIds : sessions[s].ctx = 1

\* a second session was started after a stop, on the context of the first
C30_Witness ==
    /\ Len(sessions) = 2
    /\ aborted # {}
    /\ ctxCount = 1
    /\ sessions[2].ctx = sessions[1].ctx

\* the steps of the ChatMessage of message m
StepOf(m) ==
    \/ handlePlayOf(m)
    \/ \E s \in 1..Len(players[m].sessions), kind \in {"audio", "empty"} : SegmentDone(m, s, kind)
    \/ \E src \in players[m].pending : OnEndedOf(m, src)

\* C31: a click on the Read/Stop button of one message, whether it plays or
\* stops, leaves isPlaying, the abort controller with its aborted flag, the
\* active sources and the sessions of every other message as they were, and
\* the hooks of a message change only in a step of that message.  (That two
\* messages play at the same time is the state of C31_Witness.)
C31_PlaybackIsPerMessage ==
    [][/\ \A m \in Messages :
            handlePlayOf(m) => \A n \in Messages \ {m} : players'[n] = players[n]
       /\ \A n \in Messages : players'[n] # players[n] => StepOf(n)]_vars

\* two different messages are playing at once, each with a source sounding
C31_Witness ==
    \E m \in Messages, n \in Messages :
        /\ m # n
        /\ players[m].isPlaying /\ players[m].active # {}
        /\ players[n].isPlaying /\ players[n].active # {}

QuotaMarkers == {"429", "resource_exhausted", "quota"}

AuthMarkers == {"401", "unauthorized", "invalid_api_key", "api key not found"}

\* the text of the error, in lower case, holds one of the markers
Carries(error, markers) == Range(toLowerCase(String(error))) \cap markers # {}

\* C32: whatever error the remote call or its stream throws, the catch of
\* sendMessageStream throws exactly one of three things: the quota error
\* when the text of the error carries a quota marker, also when it carries
\* an authorization marker too; the key error when it carries an
\* authorization marker and no quota marker; and the error itself, unchanged,
\* when it carries neither.
C32_ClassificationIsTotalWithPrecedence ==
    turn.pc = "failed" /\ turn.svc = "geminiService" =>
        LET error == Last(turn.raised)
        IN  /\ Carries(error, QuotaMarkers) => turn.delivered = Error(QUOTA_EXHAUSTED)
            /\ ~Carries(error, QuotaMarkers) /\ Carries(error, AuthMarkers) =>
                   turn.delivered = Error(INVALID_KEY)
            /\ ~Carries(error, QuotaMarkers) /\ ~Carries(error, AuthMarkers) =>
                   turn.delivered = error

\* an error that carries a marker of each kind was delivered as the quota error
C32_Witness ==
    /\ turn.pc = "failed"
    /\ turn.svc = "geminiService"
    /\ Carries(Last(turn.raised), QuotaMarkers)
    /\ Carries(Last(turn.raised), AuthMarkers)
    /\ turn.delivered = Error(QUOTA_EXHAUSTED)

\* the text before the first marker of a content, the whole content when it has none
AnswerBody(content) ==
    IF IncludesKeyword(content)
    THEN LET first == CHOOSE i \in 1..Len(content) :
                          /\ content[i] = verbatimKeyword
                          /\ \A j \in 1..(i - 1) : content[j] # verbatimKeyword
         IN  SubSeq(content, 1, first - 1)
    ELSE content

IsSubstring(seg, text) ==
    \E i \in 0..(Len(text) - Len(seg)) : SubSeq(text, i + 1, i + Len(seg)) = seg

\* segment k of session s ends with characters that are the beginning of the
\* marker of the message: the content read by the play ended in the first
\* part of the marker, and the rest of the marker has arrived since
EndsInsideMarker(s, k) ==
    LET content == sessions[s].content
    IN  /\ content # <<>>
        /\ ~IncludesKeyword(content)
        /\ content[Len(content)] = markerHead
        /\ messageContent[Len(content)] = verbatimKeyword
        /\ k = Len(sessions[s].segments)

\* C33: the segments of a session are those of the text before the first
\* marker in the content the play was invoked on, whatever has streamed in
\* since; every segment sent to synthesis is a substring of that text, holds
\* no marker, and holds no character of the marker of the message.
C33_OnlyAnswerBodyIsRead ==
    \A s \in SessionIds :
        LET body == AnswerBody(sessions[s].content)
        IN  /\ sessions[s].segments = Segments(body)
            /\ \A r \in 1..Len(sessions[s].requested) :
                   LET k == sessions[s].requested[r]
                       seg == sessions[s].segments[k]
                   IN  /\ IsSubstring(seg, body)
                       /\ \A i \in 1..Len(seg) : seg[i] # verbatimKeyword
                       /\ ~EndsInsideMarker(s, k)

\* C34: isLoading is set in every state in which a turn is still consuming
\* its stream; in particular the end of one of two overlapping turns leaves
\* it set while the other turn is streaming.
C34_LoadingWhileAnyTurnStreams ==
    (\E t \in 1..Len(chat.turns) : chat.turns[t].pc = "streaming") => chat.isLoading

====
